---- MODULE Spec2Model ----
(***************************************************************************)
(* Plants Hub: the product store (src/models.py), the ImageKit gateway     *)
(* (src/imagekit_client.py) and the request handlers of src/app.py         *)
(* (lines 1-437, the ImageKit-only application).                           *)
(*                                                                         *)
(* The rows of the products table carry image_file_id: app.py reads and     *)
(* writes it and its migration (lines 54-77) adds the column to the table.  *)
(* The Product class of src/models.py does not declare it; ProductColumns   *)
(* is what that class declares.                                             *)
(*                                                                         *)
(* Text that the code inspects (names, numbers typed into forms, file      *)
(* names, search terms) is a sequence of one-character strings.  URLs and  *)
(* provider identifiers are opaque and are plain strings.                  *)
(***************************************************************************)
EXTENDS Integers, Sequences, FiniteSets, TLC

VARIABLES
    products,   \* rows of the products table, in insertion order
    next_id,    \* next value of the autoincrement primary key
    now,        \* datetime.utcnow(): a later write reads a later time
    client,     \* imagekit_client._client is set (truthy)
    env,        \* what the process found when imagekit_client was imported
    uploads,    \* number of objects the provider has created so far
    last        \* the last request: what was asked, what the handler did

vars == <<products, next_id, now, client, env, uploads, last>>

-----------------------------------------------------------------------------
(* Bounds *)

MaxId == 2          \* ids handed out by the autoincrement key
MaxTime == 2        \* clock readings that get stored (committed adds and edits)
MaxUploads == 1     \* objects the provider creates
MaxRows == 2        \* rows of a table that is listed
MaxStamp == 1       \* creation times 0..MaxStamp of the rows of such a table
MaxNameLen == 4     \* length of the generated file names

-----------------------------------------------------------------------------
(* Python values *)

None == "None"

Truthy(v) == v # None /\ v # ""

\* x or None
OrNone(v) == IF Truthy(v) THEN v ELSE None

\* a or b
Or(a, b) == IF Truthy(a) THEN a ELSE b

Whitespace == {" "}

RECURSIVE LStrip(_)
LStrip(s) ==
    IF s # <<>> /\ Head(s) \in Whitespace THEN LStrip(Tail(s)) ELSE s

RECURSIVE RStrip(_)
RStrip(s) ==
    IF s # <<>> /\ s[Len(s)] \in Whitespace
    THEN RStrip(SubSeq(s, 1, Len(s) - 1))
    ELSE s

\* str.strip()
Strip(s) == RStrip(LStrip(s))

UpperLetters ==
    <<"A","B","C","D","E","F","G","H","I","J","K","L","M",
      "N","O","P","Q","R","S","T","U","V","W","X","Y","Z">>

LowerLetters ==
    <<"a","b","c","d","e","f","g","h","i","j","k","l","m",
      "n","o","p","q","r","s","t","u","v","w","x","y","z">>

LowerOf ==
    [c \in {UpperLetters[i] : i \in 1..Len(UpperLetters)} |->
        LowerLetters[CHOOSE i \in 1..Len(UpperLetters) : UpperLetters[i] = c]]

LowerChar(c) == IF c \in DOMAIN LowerOf THEN LowerOf[c] ELSE c

\* str.lower()
Lower(s) == [i \in 1..Len(s) |-> LowerChar(s[i])]

Digits == <<"0","1","2","3","4","5","6","7","8","9">>

DigitOf == [c \in {Digits[i] : i \in 1..Len(Digits)} |->
                (CHOOSE i \in 1..Len(Digits) : Digits[i] = c) - 1]

IsDigit(c) == c \in DOMAIN DigitOf

DigitVal(c) == DigitOf[c]

RECURSIVE DigitsVal(_)
DigitsVal(s) ==
    IF s = <<>> THEN 0
    ELSE 10 * DigitsVal(SubSeq(s, 1, Len(s) - 1)) + DigitVal(s[Len(s)])

AllDigits(s) == s # <<>> /\ \A i \in 1..Len(s) : IsDigit(s[i])

\* The decimal integer literals: an optional sign and one or more digits.
\* int() accepts exactly these (after stripping); float() accepts them too,
\* and the model's price and bound inputs are taken from this part of its
\* grammar.  ok = FALSE is ValueError.
ParseNumber(s) ==
    LET t == Strip(s) IN
    IF t # <<>> /\ Head(t) \in {"-", "+"} /\ AllDigits(Tail(t))
    THEN [ok |-> TRUE,
          val |-> IF Head(t) = "-" THEN 0 - DigitsVal(Tail(t))
                  ELSE DigitsVal(Tail(t))]
    ELSE IF AllDigits(t) THEN [ok |-> TRUE, val |-> DigitsVal(t)]
    ELSE [ok |-> FALSE, val |-> 0]

-----------------------------------------------------------------------------
(* Helpers of app.py *)

ALLOWED_EXTENSIONS ==
    {<<"p","n","g">>, <<"j","p","g">>, <<"j","p","e","g">>, <<"g","i","f">>}

HasDot(s) == \E i \in 1..Len(s) : s[i] = "."

LastDot(s) == CHOOSE i \in 1..Len(s) : s[i] = "." /\ \A j \in (i+1)..Len(s) : s[j] # "."

\* filename.rsplit('.', 1)[1]
AfterLastDot(s) == SubSeq(s, LastDot(s) + 1, Len(s))

\* allowed_file without .lower()
allowed_file_CaseSensitive(filename) ==
    HasDot(filename) /\ AfterLastDot(filename) \in ALLOWED_EXTENSIONS

allowed_file(filename) ==
    HasDot(filename) /\ Lower(AfterLastDot(filename)) \in ALLOWED_EXTENSIONS

-----------------------------------------------------------------------------
(* The gateway: imagekit_client.py *)

\* os.getenv(name): the value of the variable, None when it is not set
getenv(name) == env.environ[name]

PUBLIC_KEY ==
    Or(getenv("IMAGEKIT_PUBLIC_KEY"), Or(getenv("Public key"), getenv("PUBLIC_KEY")))

PRIVATE_KEY ==
    Or(getenv("IMAGEKIT_PRIVATE_KEY"), Or(getenv("Private key"), getenv("PRIVATE_KEY")))

URL_ENDPOINT ==
    Or(getenv("IMAGEKIT_URL_ENDPOINT"), Or(getenv("URL_ENDPOINT"), getenv("URL-endpoint")))

\* The client that is built although no URL endpoint is known
InitClient_NoEndpoint ==
    env.sdk /\ Truthy(PUBLIC_KEY) /\ Truthy(PRIVATE_KEY) /\ env.init_ok

\* _client after the import of imagekit_client (lines 49-59): it is set when
\* the SDK could be imported (env.sdk), the three settings are truthy and the
\* constructor ImageKit(...) did not raise (env.init_ok).
InitClient ==
    env.sdk /\ Truthy(PUBLIC_KEY) /\ Truthy(PRIVATE_KEY) /\ Truthy(URL_ENDPOINT)
        /\ env.init_ok

is_configured == client

\* What the provider hands out for its k-th object.
ProviderUrl(k) == <<"u1", "u2", "u3">>[k]
ProviderFileId(k) == <<"f1", "f2", "f3">>[k]
ProviderName(k) == <<"n1", "n2", "n3">>[k]

\* What _client.upload_file can do: return a result with a URL, return
\* nothing, return a result without a URL, raise.
UploadOutcomes == {"ok", "none", "nourl", "throw"}

\* What _client.delete_file can do: return, raise.
DeleteOutcomes == {"ok", "throw"}

Failure(code, net) ==
    [url |-> None, file_id |-> None, name |-> None, error |-> code, net |-> net,
     raised |-> FALSE]

\* upload_image that looks at the file before it looks at the configuration
upload_image_SizeFirst(file, outcome) ==
    IF ~file.seekable THEN Failure("exception", FALSE)
    ELSE IF file.size = 0 THEN Failure("empty_file", FALSE)
    ELSE IF ~is_configured THEN Failure("not_configured", FALSE)
    ELSE IF outcome = "none" THEN Failure("empty_result", TRUE)
    ELSE IF outcome = "nourl" THEN Failure("no_url", TRUE)
    ELSE IF outcome = "throw" THEN Failure("exception", TRUE)
    ELSE [url |-> ProviderUrl(uploads + 1), file_id |-> ProviderFileId(uploads + 1),
          name |-> ProviderName(uploads + 1), error |-> None, net |-> TRUE, raised |-> FALSE]

\* upload_image without the test of the file size
upload_image_NoSizeCheck(file, outcome) ==
    IF ~is_configured THEN Failure("not_configured", FALSE)
    ELSE IF ~file.seekable THEN Failure("exception", FALSE)
    ELSE IF outcome = "none" THEN Failure("empty_result", TRUE)
    ELSE IF outcome = "nourl" THEN Failure("no_url", TRUE)
    ELSE IF outcome = "throw" THEN Failure("exception", TRUE)
    ELSE [url |-> ProviderUrl(uploads + 1), file_id |-> ProviderFileId(uploads + 1),
          name |-> ProviderName(uploads + 1), error |-> None, net |-> TRUE, raised |-> FALSE]

\* upload_image without its try/except: the provider's exception escapes
upload_image_Raising(file, outcome) ==
    IF ~is_configured THEN Failure("not_configured", FALSE)
    ELSE IF ~file.seekable
    THEN [url |-> None, file_id |-> None, name |-> None, error |-> "exception",
          net |-> FALSE, raised |-> TRUE]
    ELSE IF file.size = 0 THEN Failure("empty_file", FALSE)
    ELSE IF outcome = "none" THEN Failure("empty_result", TRUE)
    ELSE IF outcome = "nourl" THEN Failure("no_url", TRUE)
    ELSE IF outcome = "throw"
    THEN [url |-> None, file_id |-> None, name |-> None, error |-> "exception",
          net |-> TRUE, raised |-> TRUE]
    ELSE [url |-> ProviderUrl(uploads + 1), file_id |-> ProviderFileId(uploads + 1),
          name |-> ProviderName(uploads + 1), error |-> None, net |-> TRUE, raised |-> FALSE]

\* upload_image(file): file is [filename, size, seekable]; outcome is what the
\* provider does if it is asked.  net says whether _client.upload_file was
\* called.  A file whose tell()/seek() raise ends in the except clause before
\* its size is known.
upload_image(file, outcome) ==
    IF ~is_configured THEN Failure("not_configured", FALSE)
    ELSE IF ~file.seekable THEN Failure("exception", FALSE)
    ELSE IF file.size = 0 THEN Failure("empty_file", FALSE)
    ELSE IF outcome = "none" THEN Failure("empty_result", TRUE)
    ELSE IF outcome = "nourl" THEN Failure("no_url", TRUE)
    ELSE IF outcome = "throw" THEN Failure("exception", TRUE)
    ELSE [url |-> ProviderUrl(uploads + 1), file_id |-> ProviderFileId(uploads + 1),
          name |-> ProviderName(uploads + 1), error |-> None, net |-> TRUE, raised |-> FALSE]

\* delete_image without its try/except: the provider's exception escapes.
delete_image_Raising(file_id, outcome) ==
    IF ~is_configured THEN [ok |-> FALSE, error |-> "not_configured", net |-> FALSE, raised |-> FALSE]
    ELSE IF ~Truthy(file_id) THEN [ok |-> FALSE, error |-> "invalid_id", net |-> FALSE, raised |-> FALSE]
    ELSE IF outcome = "throw" THEN [ok |-> FALSE, error |-> "exception", net |-> TRUE, raised |-> TRUE]
    ELSE [ok |-> TRUE, error |-> None, net |-> TRUE, raised |-> FALSE]

\* delete_image without the test of file_id
delete_image_NoIdCheck(file_id, outcome) ==
    IF ~is_configured THEN [ok |-> FALSE, error |-> "not_configured", net |-> FALSE, raised |-> FALSE]
    ELSE IF outcome = "throw" THEN [ok |-> FALSE, error |-> "exception", net |-> TRUE, raised |-> FALSE]
    ELSE [ok |-> TRUE, error |-> None, net |-> TRUE, raised |-> FALSE]

\* delete_image(file_id): True on success, a failure record otherwise.
delete_image(file_id, outcome) ==
    IF ~is_configured THEN [ok |-> FALSE, error |-> "not_configured", net |-> FALSE, raised |-> FALSE]
    ELSE IF ~Truthy(file_id) THEN [ok |-> FALSE, error |-> "invalid_id", net |-> FALSE, raised |-> FALSE]
    ELSE IF outcome = "throw" THEN [ok |-> FALSE, error |-> "exception", net |-> TRUE, raised |-> FALSE]
    ELSE [ok |-> TRUE, error |-> None, net |-> TRUE, raised |-> FALSE]

\* One entry of a request's log of gateway calls.  net: the call reached the
\* provider; raised: the call ended in an exception that reached the caller.
UploadCall(file, res) ==
    [fn |-> "upload_image", arg |-> None, ok |-> Truthy(res.url),
     net |-> res.net, raised |-> res.raised]

DeleteCall(file_id, res) ==
    [fn |-> "delete_image", arg |-> file_id, ok |-> res.ok,
     net |-> res.net, raised |-> res.raised]

-----------------------------------------------------------------------------
(* The store *)

\* The columns the Product class declares
ProductColumns ==
    {"id", "name", "description", "category", "price", "quantity", "image_url",
     "created_at", "updated_at"}

Ids == {products[i].id : i \in 1..Len(products)}

IndexOf(id) == CHOOSE i \in 1..Len(products) : products[i].id = id

\* Product.query.get(id)
Get(id) == products[IndexOf(id)]

RemoveAt(s, i) == SubSeq(s, 1, i - 1) \o SubSeq(s, i + 1, Len(s))

\* The record kept about the last request.  calls is the sequence of calls
\* the handler made to imagekit_client; old_url/old_id are the image fields
\* of the addressed product when the request arrived; ref_url/ref_id are the
\* image reference the request brought (the pre-uploaded one of the form, or
\* the one the gateway returned); db_ok says that the database accepted the
\* request's commit, or would have; quantity is the quantity field as sent.  search..max_price are the query parameters
\* of a listing request, listing is the ids of the rows it rendered and
\* suggestions the names it offered for completion.  arg and
\* result are the argument and the return value of a call made to the gateway
\* directly.
NoRequest ==
    [route |-> "none", id |-> 0, found |-> FALSE, status |-> 0,
     outcome |-> "none", reason |-> "none",
     keep_image |-> FALSE, url_given |-> FALSE, file |-> "absent",
     negative |-> FALSE, quantity |-> <<>>, db_ok |-> FALSE, committed |-> FALSE, calls |-> <<>>,
     old_url |-> None, old_id |-> None, ref_url |-> None, ref_id |-> None,
     search |-> <<>>, category |-> "", min_price |-> <<>>, max_price |-> <<>>,
     listing |-> <<>>, suggestions |-> <<>>, arg |-> None, result |-> None]

\* The names imagekit_client looks up, credential by credential
PublicKeyNames == <<"IMAGEKIT_PUBLIC_KEY", "Public key", "PUBLIC_KEY">>

PrivateKeyNames == <<"IMAGEKIT_PRIVATE_KEY", "Private key", "PRIVATE_KEY">>

UrlEndpointNames == <<"IMAGEKIT_URL_ENDPOINT", "URL_ENDPOINT", "URL-endpoint">>

\* How the three names of one credential are set: none, the first one to the
\* empty string, the first one to a value, the first one to the empty string
\* and the last one to a value.
CredentialSettings ==
    {<<None, None, None>>, <<"", None, None>>, <<"k", None, None>>, <<"", None, "k">>}

Environ(pub, priv, url) ==
    [n \in {PublicKeyNames[i] : i \in 1..3} \cup {PrivateKeyNames[i] : i \in 1..3}
            \cup {UrlEndpointNames[i] : i \in 1..3} |->
        IF \E i \in 1..3 : PublicKeyNames[i] = n
        THEN pub[CHOOSE i \in 1..3 : PublicKeyNames[i] = n]
        ELSE IF \E i \in 1..3 : PrivateKeyNames[i] = n
        THEN priv[CHOOSE i \in 1..3 : PrivateKeyNames[i] = n]
        ELSE url[CHOOSE i \in 1..3 : UrlEndpointNames[i] = n]]

\* What a process can find at the import of imagekit_client: the environment
\* variables, whether imagekitio can be imported, whether ImageKit(...) returns.
Envs ==
    {[environ |-> Environ(pub, priv, url), sdk |-> sdk, init_ok |-> init_ok] :
        pub \in CredentialSettings, priv \in CredentialSettings,
        url \in CredentialSettings, sdk \in BOOLEAN, init_ok \in BOOLEAN}

\* The two installations the application is run in: no setting at all, and
\* the three IMAGEKIT_* variables set with the SDK installed.
AppEnvs ==
    {[environ |-> Environ(c, c, c), sdk |-> TRUE, init_ok |-> TRUE] :
        c \in {<<None, None, None>>, <<"k", None, None>>}}

Init ==
    /\ products = <<>>
    /\ next_id = 1
    /\ now = 0
    /\ env \in AppEnvs
    /\ client = InitClient
    /\ uploads = 0
    /\ last = NoRequest

-----------------------------------------------------------------------------
(* Request inputs *)

\* request.files: 'image' absent, or a file with a name and a size.
NoFile == [present |-> FALSE, filename |-> <<>>, size |-> 0, seekable |-> TRUE]

File(filename, size) ==
    [present |-> TRUE, filename |-> filename, size |-> size, seekable |-> TRUE]

\* How the handlers see the file field.
FileKind(f) ==
    IF ~f.present THEN "absent"
    ELSE IF f.filename = <<>> THEN "empty"
    ELSE IF allowed_file(f.filename) THEN "allowed"
    ELSE "disallowed"

GoodFile == File(<<"a",".","P","N","G">>, 1)

EmptyFile == File(<<"a",".","p","n","g">>, 0)

BadFile == File(<<"a",".","p","d","f">>, 1)

FormFiles == {NoFile, File(<<>>, 0), GoodFile, EmptyFile, BadFile}

\* uploaded_image_url and uploaded_image_id
FormRefs == {<<"", "">>, <<"uX", "">>, <<"uX", "fX">>}

\* request.form and request.files of a well-formed request
BaseForm ==
    [product_name |-> <<"A">>, price |-> <<"5">>, description |-> <<>>,
     category |-> "other", quantity |-> <<"3">>, keep_image |-> FALSE,
     uploaded_image_url |-> "", uploaded_image_id |-> "", image |-> NoFile]

\* The well-formed requests: every way of bringing, keeping or dropping an
\* image.  A request that brings a pre-uploaded URL comes with and without
\* an attached file.
ImageForms ==
    {[BaseForm EXCEPT !.keep_image = k, !.image = f] :
        k \in BOOLEAN, f \in FormFiles}
    \cup
    {[BaseForm EXCEPT !.keep_image = k, !.uploaded_image_url = r[1],
                      !.uploaded_image_id = r[2], !.image = f] :
        k \in BOOLEAN, r \in FormRefs \ {<<"", "">>}, f \in {NoFile, GoodFile}}

\* Requests with a blank name or a price that is not a number, with and
\* without an image.
BrokenForms ==
    UNION {{[g EXCEPT !.product_name = <<" ">>], [g EXCEPT !.price = <<"x">>]} :
        g \in {BaseForm, [BaseForm EXCEPT !.image = GoodFile],
               [BaseForm EXCEPT !.uploaded_image_url = "uX", !.uploaded_image_id = "fX"]}}

\* Requests with a negative price
NegativeForms ==
    {[g EXCEPT !.price = <<"-","5">>] :
        g \in {BaseForm, [BaseForm EXCEPT !.image = GoodFile]}}

Forms == ImageForms \cup BrokenForms \cup NegativeForms

RequestIds == 1..MaxId

\* The provider is asked to store the file only by a configured gateway and
\* for a non-empty file; otherwise what it would have done does not matter.
UploadOutcomesFor(form) ==
    IF client /\ form.image.present /\ form.image.size > 0
    THEN UploadOutcomes ELSE {"none"}

DeleteOutcomesFor(id) ==
    IF client /\ id \in Ids THEN DeleteOutcomes ELSE {"ok"}

-----------------------------------------------------------------------------
(* POST /delete/<id>: app.py delete_product *)

\* delete_product without the cleanup of the image
DeleteCleanup_Skipped(file_id, outcome) == <<>>

\* if file_id: imagekit_client.delete_image(file_id)
DeleteCleanup(file_id, outcome) ==
    IF Truthy(file_id)
    THEN <<DeleteCall(file_id, delete_image(file_id, outcome))>>
    ELSE <<>>

\* An exception raised by a gateway call reaches the handler's except clause.
AnyRaised(calls) == \E i \in 1..Len(calls) : calls[i].raised

\* A commit that persists although the database refused it
Committed_Always(calls, commit_ok) == TRUE

\* db.session.commit() is reached and succeeds; otherwise the except clause
\* calls db.session.rollback().
Committed(calls, commit_ok) == ~AnyRaised(calls) /\ commit_ok

\* The handler made a call that created an object at the provider.
Created(calls) == \E i \in 1..Len(calls) : calls[i].fn = "upload_image" /\ calls[i].ok

delete_product(product_id, outcome, commit_ok) ==
    IF product_id \notin Ids
    THEN \* get_or_404 raises NotFound inside the try block: it is caught by
         \* "except Exception", and the handler redirects to the index.
         /\ last' = [NoRequest EXCEPT !.route = "delete", !.id = product_id,
                        !.status = 302, !.outcome = "error", !.reason = "notfound"]
         /\ UNCHANGED <<products, next_id, now, client, env, uploads>>
    ELSE LET product == Get(product_id)
             file_id == product.image_file_id
             calls == DeleteCleanup(file_id, outcome)
             done == Committed(calls, commit_ok)
         IN  /\ products' = IF done THEN RemoveAt(products, IndexOf(product_id))
                            ELSE products
             /\ last' = [NoRequest EXCEPT !.route = "delete", !.id = product_id,
                            !.found = TRUE, !.status = 302,
                            !.outcome = IF done THEN "ok" ELSE "error",
                            !.reason = IF done THEN "none" ELSE "exception",
                            !.db_ok = commit_ok, !.committed = done, !.calls = calls,
                            !.old_url = product.image_url, !.old_id = file_id]
             /\ UNCHANGED <<next_id, now, client, env, uploads>>

DeleteRequest ==
    \E product_id \in RequestIds, commit_ok \in BOOLEAN :
        \E outcome \in DeleteOutcomesFor(product_id) :
            delete_product(product_id, outcome, commit_ok)

-----------------------------------------------------------------------------
(* POST /add: app.py add_product *)

\* float(price) succeeded (lines 186-190)
AddPriceOk(price) == ParseNumber(price).ok

\* int(quantity) with only the unparseable values replaced by 0
Quantity_KeepNegative(quantity) ==
    LET q == ParseNumber(quantity) IN
    IF q.ok THEN q.val ELSE 0

\* int(quantity), negative and unparseable values become 0
Quantity(quantity) ==
    LET q == ParseNumber(quantity) IN
    IF q.ok /\ q.val >= 0 THEN q.val ELSE 0

ImageResult(abort, url, id, calls) ==
    [abort |-> abort, url |-> url, id |-> id, calls |-> calls]

\* AddImage that falls back to a local copy of the file when the upload fails
AddImage_LocalOnFailure(uploaded_url, uploaded_id, f, outcome) ==
    IF Truthy(uploaded_url)
    THEN ImageResult(FALSE, uploaded_url, OrNone(uploaded_id), <<>>)
    ELSE IF FileKind(f) = "allowed"
    THEN LET res == upload_image(f, outcome) IN
         IF Truthy(res.url)
         THEN ImageResult(FALSE, res.url, res.file_id, <<UploadCall(f, res)>>)
         ELSE ImageResult(FALSE, "local", None, <<UploadCall(f, res)>>)
    ELSE IF FileKind(f) = "disallowed"
    THEN ImageResult(TRUE, None, None, <<>>)
    ELSE ImageResult(FALSE, None, None, <<>>)

\* Lines 199-218: the pre-uploaded URL wins, else an attached file with an
\* allowed name is uploaded, else a file with another name is refused.
AddImage(uploaded_url, uploaded_id, f, outcome) ==
    IF Truthy(uploaded_url)
    THEN ImageResult(FALSE, uploaded_url, OrNone(uploaded_id), <<>>)
    ELSE IF FileKind(f) = "allowed"
    THEN LET res == upload_image(f, outcome) IN
         IF Truthy(res.url)
         THEN ImageResult(FALSE, res.url, res.file_id, <<UploadCall(f, res)>>)
         ELSE ImageResult(FALSE, None, None, <<UploadCall(f, res)>>)
    ELSE IF FileKind(f) = "disallowed"
    THEN ImageResult(TRUE, None, None, <<>>)
    ELSE ImageResult(FALSE, None, None, <<>>)

Rejected(route, id, found, reason, form) ==
    [NoRequest EXCEPT !.route = route, !.id = id, !.found = found,
                      !.status = 302, !.outcome = "validation", !.reason = reason,
                      !.keep_image = form.keep_image,
                      !.url_given = Truthy(form.uploaded_image_url),
                      !.file = FileKind(form.image),
                      !.negative = ParseNumber(form.price).val < 0,
                      !.quantity = form.quantity]

\* The image reference a request brings: the pre-uploaded one, or the one of
\* the object the provider created for it.
Brought(form, calls) ==
    IF Truthy(form.uploaded_image_url)
    THEN <<form.uploaded_image_url, form.uploaded_image_id>>
    ELSE IF Created(calls) THEN <<ProviderUrl(uploads + 1), ProviderFileId(uploads + 1)>>
    ELSE <<None, None>>

add_product(form, outcome, commit_ok) ==
    LET name == Strip(form.product_name)
        img == AddImage(form.uploaded_image_url, form.uploaded_image_id,
                        form.image, outcome)
        done == Committed(img.calls, commit_ok)
        product == [id |-> next_id, name |-> name,
                    description |-> Strip(form.description),
                    category |-> form.category,
                    price |-> ParseNumber(form.price).val,
                    quantity |-> Quantity(form.quantity),
                    image_url |-> img.url, image_file_id |-> img.id,
                    created_at |-> now, updated_at |-> now]
    IN
    IF name = <<>>
    THEN /\ last' = Rejected("add", 0, FALSE, "name", form)
         /\ UNCHANGED <<products, next_id, now, client, env, uploads>>
    ELSE IF ~AddPriceOk(form.price)
    THEN /\ last' = Rejected("add", 0, FALSE, "price", form)
         /\ UNCHANGED <<products, next_id, now, client, env, uploads>>
    ELSE IF img.abort
    THEN /\ last' = Rejected("add", 0, FALSE, "filetype", form)
         /\ UNCHANGED <<products, next_id, now, client, env, uploads>>
    ELSE /\ products' = IF done THEN Append(products, product) ELSE products
         /\ next_id' = IF done THEN next_id + 1 ELSE next_id
         /\ now' = IF done THEN now + 1 ELSE now
         /\ uploads' = IF Created(img.calls) THEN uploads + 1 ELSE uploads
         /\ last' = [NoRequest EXCEPT !.route = "add",
                        !.id = IF done THEN next_id ELSE 0,
                        !.status = 302,
                        !.outcome = IF done THEN "ok" ELSE "error",
                        !.reason = IF done THEN "none" ELSE "exception",
                        !.url_given = Truthy(form.uploaded_image_url),
                        !.file = FileKind(form.image),
                        !.negative = ParseNumber(form.price).val < 0,
                        !.quantity = form.quantity,
                        !.db_ok = commit_ok, !.committed = done,
                        !.calls = img.calls,
                        !.ref_url = Brought(form, img.calls)[1],
                        !.ref_id = Brought(form, img.calls)[2]]
         /\ UNCHANGED <<client, env>>

AddRequest ==
    /\ next_id <= MaxId
    /\ now < MaxTime
    /\ \E form \in Forms, commit_ok \in BOOLEAN :
           \E outcome \in UploadOutcomesFor(form) :
               /\ outcome = "ok" => uploads < MaxUploads
               /\ add_product(form, outcome, commit_ok)

-----------------------------------------------------------------------------
(* POST /edit/<id>: app.py edit_product *)

\* float(price) succeeded and is not negative (lines 273-279)
EditPriceOk(price) == ParseNumber(price).ok /\ ParseNumber(price).val >= 0

\* The cleanup without the test of keep_image
EditCleanup_IgnoreKeep(keep_image, current_id, outcome) ==
    IF Truthy(current_id)
    THEN <<DeleteCall(current_id, delete_image(current_id, outcome))>>
    ELSE <<>>

\* if not keep_image and current_id: imagekit_client.delete_image(current_id)
EditCleanup(keep_image, current_id, outcome) ==
    IF ~keep_image /\ Truthy(current_id)
    THEN <<DeleteCall(current_id, delete_image(current_id, outcome))>>
    ELSE <<>>

\* new_url = None, whatever keep_image says
KeptUrl_Dropped(keep_image, current_url) == None

\* new_url before any new image is looked at (line 291)
KeptUrl(keep_image, current_url) == IF keep_image THEN current_url ELSE None

\* new_id = current_id, whatever keep_image says
KeptId_Retained(keep_image, current_id) == current_id

\* new_id before any new image is looked at (line 292)
KeptId(keep_image, current_id) == IF keep_image THEN current_id ELSE None

\* Lines 288-316.
EditImage(product, keep_image, uploaded_url, uploaded_id, f, up, del) ==
    LET current_url == product.image_url
        current_id == product.image_file_id
    IN
    IF Truthy(uploaded_url)
    THEN ImageResult(FALSE, uploaded_url, OrNone(uploaded_id),
                     EditCleanup(keep_image, current_id, del))
    ELSE IF FileKind(f) = "allowed"
    THEN LET res == upload_image(f, up) IN
         IF Truthy(res.url)
         THEN ImageResult(FALSE, res.url, res.file_id,
                          <<UploadCall(f, res)>> \o EditCleanup(keep_image, current_id, del))
         ELSE ImageResult(FALSE, KeptUrl(keep_image, current_url),
                          KeptId(keep_image, current_id), <<UploadCall(f, res)>>)
    ELSE IF FileKind(f) = "disallowed"
    THEN ImageResult(TRUE, None, None, <<>>)
    ELSE ImageResult(FALSE, KeptUrl(keep_image, current_url),
                     KeptId(keep_image, current_id), <<>>)

\* The assignments that also stamp created_at
Edited_Recreated(product, form, img) ==
    [product EXCEPT !.name = Strip(form.product_name),
                    !.description = Strip(form.description),
                    !.category = form.category,
                    !.price = ParseNumber(form.price).val,
                    !.quantity = Quantity(form.quantity),
                    !.image_url = img.url, !.image_file_id = img.id,
                    !.created_at = now, !.updated_at = now]

\* Lines 318-325: the assignments to the loaded product
Edited(product, form, img) ==
    [product EXCEPT !.name = Strip(form.product_name),
                    !.description = Strip(form.description),
                    !.category = form.category,
                    !.price = ParseNumber(form.price).val,
                    !.quantity = Quantity(form.quantity),
                    !.image_url = img.url, !.image_file_id = img.id,
                    !.updated_at = now]

edit_product(product_id, form, up, del, commit_ok) ==
    IF product_id \notin Ids
    THEN \* get_or_404 is outside the try block: the 404 handler answers.
         /\ last' = [NoRequest EXCEPT !.route = "edit", !.id = product_id,
                        !.status = 404, !.outcome = "notfound", !.reason = "notfound"]
         /\ UNCHANGED <<products, next_id, now, client, env, uploads>>
    ELSE
    LET product == Get(product_id)
        name == Strip(form.product_name)
        img == EditImage(product, form.keep_image, form.uploaded_image_url,
                         form.uploaded_image_id, form.image, up, del)
        done == Committed(img.calls, commit_ok)
        edited == Edited(product, form, img)
    IN
    IF name = <<>>
    THEN /\ last' = Rejected("edit", product_id, TRUE, "name", form)
         /\ UNCHANGED <<products, next_id, now, client, env, uploads>>
    ELSE IF ~EditPriceOk(form.price)
    THEN /\ last' = Rejected("edit", product_id, TRUE, "price", form)
         /\ UNCHANGED <<products, next_id, now, client, env, uploads>>
    ELSE IF img.abort
    THEN /\ last' = Rejected("edit", product_id, TRUE, "filetype", form)
         /\ UNCHANGED <<products, next_id, now, client, env, uploads>>
    ELSE /\ products' = IF done THEN [products EXCEPT ![IndexOf(product_id)] = edited]
                        ELSE products
         /\ now' = IF done THEN now + 1 ELSE now
         /\ uploads' = IF Created(img.calls) THEN uploads + 1 ELSE uploads
         /\ last' = [NoRequest EXCEPT !.route = "edit", !.id = product_id,
                        !.found = TRUE, !.status = 302,
                        !.outcome = IF done THEN "ok" ELSE "error",
                        !.reason = IF done THEN "none" ELSE "exception",
                        !.keep_image = form.keep_image,
                        !.url_given = Truthy(form.uploaded_image_url),
                        !.file = FileKind(form.image),
                        !.quantity = form.quantity,
                        !.db_ok = commit_ok, !.committed = done,
                        !.calls = img.calls,
                        !.old_url = product.image_url,
                        !.old_id = product.image_file_id,
                        !.ref_url = Brought(form, img.calls)[1],
                        !.ref_id = Brought(form, img.calls)[2]]
         /\ UNCHANGED <<next_id, client, env>>

EditRequest ==
    /\ now < MaxTime
    /\ \E product_id \in RequestIds, form \in Forms, commit_ok \in BOOLEAN :
           \E up \in UploadOutcomesFor(form), del \in DeleteOutcomesFor(product_id) :
               /\ up = "ok" => uploads < MaxUploads
               /\ edit_product(product_id, form, up, del, commit_ok)

-----------------------------------------------------------------------------
(* GET /: app.py index *)

\* s LIKE pattern, case-insensitively (ILIKE): % stands for any run of
\* characters and _ for any one character.
RECURSIVE LikeMatch(_, _)
LikeMatch(pattern, s) ==
    IF pattern = <<>> THEN s = <<>>
    ELSE IF Head(pattern) = "%"
    THEN LikeMatch(Tail(pattern), s) \/ (s # <<>> /\ LikeMatch(pattern, Tail(s)))
    ELSE IF s = <<>> THEN FALSE
    ELSE IF Head(pattern) = "_" THEN LikeMatch(Tail(pattern), Tail(s))
    ELSE LowerChar(Head(pattern)) = LowerChar(Head(s))
         /\ LikeMatch(Tail(pattern), Tail(s))

\* Product.<column>.ilike(f"%{search_query}%")
ilike(column, search_query) == LikeMatch(<<"%">> \o search_query \o <<"%">>, column)

\* if search_query: q.filter(or_(name.ilike(term), description.ilike(term)))
SearchFilter(p, search_query) ==
    search_query # <<>> =>
        ilike(p.name, search_query) \/ ilike(p.description, search_query)

\* if category_filter and category_filter != 'all'
CategoryFilter(p, category) ==
    LET category_filter == IF category = "" THEN "all" ELSE category IN
    category_filter # "all" => p.category = category_filter

\* A lower bound that is not a number selects nothing
MinPriceFilter_Strict(p, min_price) ==
    min_price # <<>> => (ParseNumber(min_price).ok /\ p.price >= ParseNumber(min_price).val)

\* if min_price: try float(min_price) except ValueError: pass
MinPriceFilter(p, min_price) ==
    (min_price # <<>> /\ ParseNumber(min_price).ok) => p.price >= ParseNumber(min_price).val

MaxPriceFilter(p, max_price) ==
    (max_price # <<>> /\ ParseNumber(max_price).ok) => p.price <= ParseNumber(max_price).val

\* The positions of the rows the query selects.
Selected(search, category, min_price, max_price) ==
    {i \in 1..Len(products) :
        /\ SearchFilter(products[i], Strip(search))
        /\ CategoryFilter(products[i], category)
        /\ MinPriceFilter(products[i], Strip(min_price))
        /\ MaxPriceFilter(products[i], Strip(max_price))}

\* order_by(Product.created_at.desc()): the orders in which the database may
\* return the selected rows.
Orderings(rows) ==
    {o \in [1..Cardinality(rows) -> rows] :
        /\ \A i, j \in DOMAIN o : i # j => o[i] # o[j]
        /\ \A i, j \in DOMAIN o :
              i < j => products[o[i]].created_at >= products[o[j]].created_at}

\* The code points of the characters that occur in the model's texts
CodePoint ==
    [c \in {UpperLetters[i] : i \in 1..Len(UpperLetters)}
            \cup {LowerLetters[i] : i \in 1..Len(LowerLetters)}
            \cup {Digits[i] : i \in 1..Len(Digits)}
            \cup {" ", "%", "+", "-", ".", "_"} |->
        IF \E i \in 1..Len(UpperLetters) : UpperLetters[i] = c
        THEN 64 + (CHOOSE i \in 1..Len(UpperLetters) : UpperLetters[i] = c)
        ELSE IF \E i \in 1..Len(LowerLetters) : LowerLetters[i] = c
        THEN 96 + (CHOOSE i \in 1..Len(LowerLetters) : LowerLetters[i] = c)
        ELSE IF \E i \in 1..Len(Digits) : Digits[i] = c
        THEN 47 + (CHOOSE i \in 1..Len(Digits) : Digits[i] = c)
        ELSE IF c = " " THEN 32 ELSE IF c = "%" THEN 37 ELSE IF c = "+" THEN 43
        ELSE IF c = "-" THEN 45 ELSE IF c = "." THEN 46 ELSE 95]

\* a < b for Python strings: the first differing character decides, a proper
\* prefix comes first.
RECURSIVE StrLess(_, _)
StrLess(a, b) ==
    IF b = <<>> THEN FALSE
    ELSE IF a = <<>> THEN TRUE
    ELSE IF Head(a) = Head(b) THEN StrLess(Tail(a), Tail(b))
    ELSE CodePoint[Head(a)] < CodePoint[Head(b)]

\* str.casefold on the model's characters
casefold(s) == Lower(s)

\* Names compared as they are
SuggestionKey_Plain(n) == n

\* key=str.casefold
SuggestionKey(n) == casefold(n)

\* db.session.query(Product.name).distinct().all()
DistinctNames == {products[i].name : i \in 1..Len(products)}

\* sorted(names, key=str.casefold): the sort is stable and the database
\* returns the distinct names in no particular order, so names with the same
\* key may come in either order.
Suggestions ==
    {o \in [1..Cardinality(DistinctNames) -> DistinctNames] :
        /\ \A i, j \in DOMAIN o : i # j => o[i] # o[j]
        /\ \A i, j \in DOMAIN o :
              i < j => ~StrLess(SuggestionKey(o[j]), SuggestionKey(o[i]))}

\* index() that lets the failure of the query escape
index_Propagating(search, category, min_price, max_price, order, suggestions, db_ok) ==
    /\ last' = IF db_ok
               THEN [NoRequest EXCEPT !.route = "index", !.status = 200, !.outcome = "ok",
                        !.db_ok = TRUE,
                        !.search = search, !.category = category,
                        !.min_price = min_price, !.max_price = max_price,
                        !.listing = [i \in DOMAIN order |-> products[order[i]].id],
                        !.suggestions = suggestions]
               ELSE [NoRequest EXCEPT !.route = "index", !.status = 500, !.outcome = "raised",
                        !.reason = "exception",
                        !.search = search, !.category = category,
                        !.min_price = min_price, !.max_price = max_price]
    /\ UNCHANGED <<products, next_id, now, client, env, uploads>>

index(search, category, min_price, max_price, order, suggestions, db_ok) ==
    /\ last' = IF db_ok
               THEN [NoRequest EXCEPT !.route = "index", !.status = 200, !.outcome = "ok",
                        !.db_ok = TRUE,
                        !.search = search, !.category = category,
                        !.min_price = min_price, !.max_price = max_price,
                        !.listing = [i \in DOMAIN order |-> products[order[i]].id],
                        !.suggestions = suggestions]
               ELSE \* except Exception: flash and render the empty listing
                    [NoRequest EXCEPT !.route = "index", !.status = 200, !.outcome = "error",
                        !.reason = "exception",
                        !.search = search, !.category = category,
                        !.min_price = min_price, !.max_price = max_price]
    /\ UNCHANGED <<products, next_id, now, client, env, uploads>>

QuerySearches == {<<>>, <<" ">>, <<"a">>, <<"A","B">>, <<"_">>}

QueryCategories == {"", "all", "indoor_plant"}

QueryPrices == {<<>>, <<"x">>, <<"1","0">>}

IndexRequest ==
    \* A listing changes nothing that a listing depends on: one listing per
    \* behaviour covers them all.
    /\ last.route = "none"
    /\ \E search \in QuerySearches, category \in QueryCategories,
          min_price \in QueryPrices, max_price \in QueryPrices, db_ok \in BOOLEAN :
           \E order \in Orderings(Selected(search, category, min_price, max_price)),
              suggestions \in Suggestions :
               index(search, category, min_price, max_price, order, suggestions, db_ok)

\* The tables that are listed: up to MaxRows rows taken from a small
\* catalogue, with ids and creation times in insertion order.
Catalogue ==
    {[name |-> <<"a","B">>, description |-> <<>>, category |-> "indoor_plant", price |-> 5],
     [name |-> <<"C">>, description |-> <<"a">>, category |-> "indoor_plant", price |-> 100],
     [name |-> <<"C">>, description |-> <<>>, category |-> "other", price |-> 5],
     [name |-> <<"a","B">>, description |-> <<"a">>, category |-> "other", price |-> 100]}

Row(id, r, t) ==
    [id |-> id, name |-> r.name, description |-> r.description,
     category |-> r.category, price |-> r.price, quantity |-> 0,
     image_url |-> None, image_file_id |-> None,
     created_at |-> t, updated_at |-> t]

Tables ==
    UNION {{[i \in 1..n |-> Row(i, rows[i], stamps[i])] :
              rows \in [1..n -> Catalogue],
              stamps \in {st \in [1..n -> 0..MaxStamp] :
                            \A i \in 1..n, j \in 1..n : i < j => st[i] <= st[j]}} :
           n \in 0..MaxRows}

InitQuery ==
    /\ products \in Tables
    /\ next_id = Len(products) + 1
    /\ now = MaxStamp
    /\ env \in {e \in AppEnvs : e.environ["IMAGEKIT_PUBLIC_KEY"] = None}
    /\ client = InitClient
    /\ uploads = 0
    /\ last = NoRequest

NextQuery == IndexRequest

SpecQuery == InitQuery /\ [][NextQuery]_vars

-----------------------------------------------------------------------------
(* The gateway called directly: imagekit_client.is_configured, upload_image, *)
(* delete_image                                                              *)

\* A file whose tell() raises (a stream that cannot be positioned)
Unseekable ==
    [present |-> TRUE, filename |-> <<"a",".","p","n","g">>, size |-> 1, seekable |-> FALSE]

GatewayFiles == {GoodFile, EmptyFile, BadFile, Unseekable}

GatewayFileIds == {None, "", "f1"}

IsConfiguredCall ==
    /\ last' = [NoRequest EXCEPT !.route = "is_configured", !.result = is_configured]
    /\ UNCHANGED <<products, next_id, now, client, env, uploads>>

UploadImageCall ==
    \E file \in GatewayFiles, outcome \in UploadOutcomes :
        LET res == upload_image(file, outcome) IN
        /\ Truthy(res.url) => uploads < MaxUploads
        /\ last' = [NoRequest EXCEPT !.route = "upload_image", !.arg = file,
                                     !.result = res]
        /\ uploads' = IF Truthy(res.url) THEN uploads + 1 ELSE uploads
        /\ UNCHANGED <<products, next_id, now, client, env>>

DeleteImageCall ==
    \E file_id \in GatewayFileIds, outcome \in DeleteOutcomes :
        /\ last' = [NoRequest EXCEPT !.route = "delete_image", !.arg = file_id,
                                     !.result = delete_image(file_id, outcome)]
        /\ UNCHANGED <<products, next_id, now, client, env, uploads>>

InitGateway ==
    /\ products = <<>>
    /\ next_id = 1
    /\ now = 0
    /\ env \in Envs
    /\ client = InitClient
    /\ uploads = 0
    /\ last = NoRequest

NextGateway == IsConfiguredCall \/ UploadImageCall \/ DeleteImageCall

SpecGateway == InitGateway /\ [][NextGateway]_vars

-----------------------------------------------------------------------------
(* POST /upload: app.py api_upload_image *)

\* The JSON body and the status of the answer.  code is the gateway's error
\* code when the answer carries one.
UploadAnswer(status, url, file_id, name, code) ==
    [status |-> status, url |-> url, file_id |-> file_id, name |-> name, code |-> code]

api_upload_image(f, outcome) ==
    IF ~is_configured THEN UploadAnswer(500, None, None, None, None)
    ELSE IF ~f.present THEN UploadAnswer(400, None, None, None, None)
    ELSE IF f.filename = <<>> THEN UploadAnswer(400, None, None, None, None)
    ELSE IF ~allowed_file(f.filename) THEN UploadAnswer(400, None, None, None, None)
    ELSE LET res == upload_image(f, outcome) IN
         IF res.raised THEN UploadAnswer(500, None, None, None, None)
         ELSE IF ~Truthy(res.url) THEN UploadAnswer(500, None, None, None, res.error)
         ELSE UploadAnswer(200, res.url, res.file_id, res.name, None)

UploadFiles == FormFiles \cup {Unseekable}

UploadRequest ==
    \E f \in UploadFiles, outcome \in UploadOutcomes :
        LET answer == api_upload_image(f, outcome) IN
        /\ answer.status = 200 => uploads < MaxUploads
        /\ last' = [NoRequest EXCEPT !.route = "upload", !.status = answer.status,
                                     !.arg = f, !.result = answer]
        /\ uploads' = IF answer.status = 200 THEN uploads + 1 ELSE uploads
        /\ UNCHANGED <<products, next_id, now, client, env>>

NextUpload == UploadRequest

SpecUpload == InitGateway /\ [][NextUpload]_vars

-----------------------------------------------------------------------------
(* allowed_file called on its own *)

\* The file names of Test 6 of test_image_fixes.py, and a name without a dot
TestNames ==
    {<<"i","m","a","g","e",".","p","n","g">>, <<"i","m","a","g","e",".","j","p","g">>,
     <<"i","m","a","g","e",".","j","p","e","g">>, <<"i","m","a","g","e",".","g","i","f">>,
     <<"d","o","c","u","m","e","n","t",".","p","d","f">>, <<"s","c","r","i","p","t",".","j","s">>,
     <<"i","m","a","g","e",".","P","N","G">>, <<"p","n","g">>}

NameAlphabet == {".", "g", "i", "f", "G", "x"}

\* Every name of up to MaxNameLen characters of the alphabet
GeneratedNames == UNION {[1..k -> NameAlphabet] : k \in 0..MaxNameLen}

Filenames == TestNames \cup GeneratedNames

AllowedFileCall ==
    \* The function reads and changes no state: one call per behaviour
    \* covers them all.
    /\ last.route = "none"
    /\ \E filename \in Filenames :
           /\ last' = [NoRequest EXCEPT !.route = "allowed_file", !.arg = filename,
                                        !.result = allowed_file(filename)]
           /\ UNCHANGED <<products, next_id, now, client, env, uploads>>

InitFiles ==
    /\ products = <<>>
    /\ next_id = 1
    /\ now = 0
    /\ env \in AppEnvs
    /\ client = InitClient
    /\ uploads = 0
    /\ last = NoRequest

NextFiles == AllowedFileCall

SpecFiles == InitFiles /\ [][NextFiles]_vars

-----------------------------------------------------------------------------
(* Add, edit and delete with the text fields varied and no image *)

Quantities == {<<"3">>, <<"-","2">>, <<"x">>, <<>>, <<"3",".","5">>}

FieldForms ==
    {[BaseForm EXCEPT !.product_name = n, !.quantity = q] :
        n \in {<<"A">>, <<"B">>}, q \in Quantities}

AddFieldsRequest ==
    /\ next_id <= MaxId
    /\ now < MaxTime
    /\ \E form \in FieldForms, commit_ok \in BOOLEAN :
           add_product(form, "none", commit_ok)

EditFieldsRequest ==
    /\ now < MaxTime
    /\ \E product_id \in RequestIds, form \in FieldForms, commit_ok \in BOOLEAN :
           edit_product(product_id, form, "none", "ok", commit_ok)

\* The store holds rows that earlier requests created, none with an image;
\* the clock stands at the latest creation time a row may carry.
InitFields ==
    /\ products \in Tables
    /\ next_id = Len(products) + 1
    /\ now = MaxStamp
    /\ env \in AppEnvs
    /\ client = InitClient
    /\ uploads = 0
    /\ last = NoRequest

NextFields == AddFieldsRequest \/ EditFieldsRequest \/ DeleteRequest

SpecFields == InitFields /\ [][NextFields]_vars

-----------------------------------------------------------------------------

Next == AddRequest \/ EditRequest \/ DeleteRequest

Spec == Init /\ [][Next]_vars

-----------------------------------------------------------------------------
(* What the claims speak about *)

ImageOf(table, id) ==
    LET i == CHOOSE k \in 1..Len(table) : table[k].id = id IN
    <<table[i].image_url, table[i].image_file_id>>

\* The identifiers the last request asked the gateway to delete, in order.
DeleteArgs ==
    LET dels == SelectSeq(last.calls, LAMBDA c : c.fn = "delete_image") IN
    [i \in 1..Len(dels) |-> dels[i].arg]

UploadFailed == \E i \in 1..Len(last.calls) :
                    last.calls[i].fn = "upload_image" /\ ~last.calls[i].ok

UploadSucceeded == \E i \in 1..Len(last.calls) :
                       last.calls[i].fn = "upload_image" /\ last.calls[i].ok

\* No new file attached: no file field, or a file field without a file name.
NoNewFile == last.file \in {"absent", "empty"}

\* The last request was an edit of a stored product.
EditOfStored == last.route = "edit" /\ last.found

\* s contains sub, letter case ignored
ContainsCI(s, sub) ==
    \E k \in 0..(Len(s) - Len(sub)) :
        Lower(SubSeq(s, k + 1, k + Len(sub))) = Lower(sub)

\* The conjunction of the predicates a listing request supplies.
Satisfies(p, q) ==
    /\ Strip(q.search) # <<>> =>
          ContainsCI(p.name, Strip(q.search)) \/ ContainsCI(p.description, Strip(q.search))
    /\ q.category \notin {"", "all"} => p.category = q.category
    /\ ParseNumber(q.min_price).ok => p.price >= ParseNumber(q.min_price).val
    /\ ParseNumber(q.max_price).ok => p.price <= ParseNumber(q.max_price).val

-----------------------------------------------------------------------------
(* The claims *)

\* C1: a listing returns exactly the products that satisfy the conjunction of
\* the supplied predicates (name or description contains the search text,
\* letter case ignored; category equal; price within the bounds), each once;
\* an absent or empty filter, or category 'all', removes no product.
C1_ListingIsConjunction ==
    (last.route = "index" /\ last.outcome = "ok") =>
        /\ {last.listing[i] : i \in 1..Len(last.listing)}
              = {products[i].id : i \in {k \in 1..Len(products) : Satisfies(products[k], last)}}
        /\ \A i, j \in 1..Len(last.listing) : i # j => last.listing[i] # last.listing[j]

\* C2: when the upload of the file attached to an edit fails, the committed
\* edit leaves image_url and image_file_id as they were, with or without
\* keep_image.
C2_FailedUploadKeepsImage ==
    (EditOfStored /\ last.committed /\ UploadFailed) =>
        ImageOf(products, last.id) = <<last.old_url, last.old_id>>

\* C3: an add request with a negative price creates no record and leaves the
\* store as it was.
C3_NegativePriceRejected ==
    [][(last'.route = "add" /\ last'.negative) => products' = products]_vars

\* C4: an edit or a delete of an id that is not in the store answers 404 and
\* leaves the store as it was.
C4_MissingIdIs404 ==
    [][(last'.route \in {"edit", "delete"} /\ ~last'.found) =>
          (last'.status = 404 /\ products' = products)]_vars

\* C5: deleting a product that has an image_file_id makes exactly one gateway
\* delete call, with that identifier, whether the call succeeds or not;
\* deleting a product without one makes none.
C5_DeleteCleansUpOnce ==
    (last.route = "delete" /\ last.found) =>
        DeleteArgs = IF Truthy(last.old_id) THEN <<last.old_id>> ELSE <<>>

C5_Witness ==
    /\ last.route = "delete" /\ last.found /\ Truthy(last.old_id)
    /\ Len(last.calls) = 1 /\ ~last.calls[1].ok

\* C6: when the database accepts the commit of a delete of a stored product,
\* the record is gone, whatever became of the deletion of its image.
C6_DeleteNotBlockedByImage ==
    (last.route = "delete" /\ last.found /\ last.db_ok) => last.id \notin Ids

C6_Witness ==
    /\ last.route = "delete" /\ last.found /\ last.db_ok
    /\ Len(last.calls) = 1 /\ last.calls[1].net /\ ~last.calls[1].ok

\* C7: an edit with keep_image, without a new file and without a pre-uploaded
\* URL leaves image_url and image_file_id as they were and makes no gateway
\* call.
C7_KeepImageKeeps ==
    [][(last'.route = "edit" /\ last'.found /\ last'.keep_image
            /\ ~last'.url_given /\ last'.file \in {"absent", "empty"}) =>
          (ImageOf(products', last'.id) = ImageOf(products, last'.id)
            /\ last'.calls = <<>>)]_vars

C7_Witness ==
    /\ EditOfStored /\ last.keep_image /\ ~last.url_given /\ NoNewFile
    /\ last.committed /\ Truthy(last.old_id)
    /\ ImageOf(products, last.id) = <<last.old_url, last.old_id>>

\* The last request was an edit that adopted a new image reference: it passed
\* validation and brought a pre-uploaded URL or had its file uploaded.
Adopts ==
    /\ EditOfStored /\ last.outcome \in {"ok", "error"}
    /\ last.url_given \/ UploadSucceeded

\* The cleanup an adopting edit owes: one delete of the old identifier when
\* the old image is not kept, none when it is kept.
AdoptionCleanup ==
    /\ (~last.keep_image /\ Truthy(last.old_id)) => DeleteArgs = <<last.old_id>>
    /\ last.keep_image => DeleteArgs = <<>>

\* C8 as stated: an edit that adopts a new image reference requests exactly
\* one delete of the old identifier when keep_image is not requested and the
\* product has one, none when keep_image is requested, and the product's
\* image_url/image_file_id become the new reference.
C8_AdoptionAsStated ==
    Adopts =>
        /\ AdoptionCleanup
        /\ ImageOf(products, last.id) = <<last.ref_url, OrNone(last.ref_id)>>

\* C8, amended: the same cleanup; the product's image_url/image_file_id
\* become the new reference when the edit's commit succeeds.
C8_Adoption ==
    Adopts =>
        /\ AdoptionCleanup
        /\ last.committed =>
              ImageOf(products, last.id) = <<last.ref_url, OrNone(last.ref_id)>>

C8_Witness ==
    /\ Adopts /\ last.committed /\ ~last.keep_image /\ Truthy(last.old_id)
    /\ DeleteArgs = <<last.old_id>>

\* The last request was an edit without a new file, without a pre-uploaded
\* URL and without keep_image.
PlainEdit ==
    EditOfStored /\ ~last.keep_image /\ ~last.url_given /\ NoNewFile

C10_OldImagesCleanedUp ==
    (/\ Truthy(last.old_id) /\ last.committed
     /\ \/ last.route = "delete"
        \/ last.route = "edit" /\ ImageOf(products, last.id)[2] # last.old_id) =>
        \E i \in 1..Len(DeleteArgs) : DeleteArgs[i] = last.old_id

-----------------------------------------------------------------------------
(* The claims about the gateway, over SpecGateway *)

UploadCalled == last.route = "upload_image"

DeleteCalled == last.route = "delete_image"

\* The failure is a structured one: a record with a code, handed back.
StructuredFailure(res) == res.error # None /\ ~res.raised

UploadFailureCodes ==
    {"not_configured", "empty_file", "empty_result", "no_url", "exception"}

\* Each of the three credentials has a value under one of its names.
CredentialsPresent ==
    Truthy(PUBLIC_KEY) /\ Truthy(PRIVATE_KEY) /\ Truthy(URL_ENDPOINT)

\* C11: upload_image with the provider unconfigured returns the failure with
\* code not_configured and does not call the provider, whatever the file, an
\* empty one included.
C11_UnconfiguredUpload ==
    (UploadCalled /\ ~is_configured) =>
        /\ StructuredFailure(last.result)
        /\ last.result.error = "not_configured"
        /\ ~Truthy(last.result.url)
        /\ ~last.result.net

C11_Witness ==
    /\ UploadCalled /\ ~is_configured /\ last.arg.size = 0
    /\ last.result.error = "not_configured"

\* C12: upload_image of a zero-byte file with the provider configured returns
\* the failure with code empty_file and does not call the provider.
C12_EmptyFileUpload ==
    (UploadCalled /\ is_configured /\ last.arg.seekable /\ last.arg.size = 0) =>
        /\ StructuredFailure(last.result)
        /\ last.result.error = "empty_file"
        /\ ~Truthy(last.result.url)
        /\ ~last.result.net

C12_Witness ==
    /\ UploadCalled /\ is_configured /\ last.arg.seekable /\ last.arg.size = 0
    /\ last.result.error = "empty_file"

\* C13: upload_image and delete_image never raise: upload_image returns a
\* success with a non-empty url or a failure whose code is one of
\* not_configured, empty_file, empty_result, no_url, exception; delete_image
\* returns success or a structured failure.
C13_GatewayNeverRaises ==
    /\ UploadCalled =>
          /\ ~last.result.raised
          /\ \/ Truthy(last.result.url) /\ last.result.error = None
             \/ ~Truthy(last.result.url) /\ last.result.error \in UploadFailureCodes
    /\ DeleteCalled =>
          /\ ~last.result.raised
          /\ \/ last.result.ok /\ last.result.error = None
             \/ ~last.result.ok /\ StructuredFailure(last.result)

C13_Witness ==
    /\ UploadCalled /\ last.result.net /\ last.result.error = "exception"
    /\ ~last.result.raised

C15_DeleteRefused ==
    (DeleteCalled /\ (~is_configured \/ ~Truthy(last.arg))) =>
        /\ ~last.result.ok
        /\ StructuredFailure(last.result)
        /\ ~last.result.net

C15_Witness ==
    /\ DeleteCalled /\ is_configured /\ last.arg = ""
    /\ last.result.error = "invalid_id"

-----------------------------------------------------------------------------
(* The claims about the store and the handlers, over Spec *)

\* The URLs of the objects the gateway has created so far.
GatewayUrls == {ProviderUrl(k) : k \in 1..uploads}

\* C16: in every reachable state of the store, a product has an
\* image_file_id only when its image_url is the URL of an object the gateway
\* created.
C16_FileIdOnlyForGatewayObjects ==
    \A i \in 1..Len(products) :
        Truthy(products[i].image_file_id) => products[i].image_url \in GatewayUrls

\* C17: an add or edit request with a validation error (empty name, price
\* that is not a number, negative price, file of a disallowed type) leaves the
\* store as it was and makes no gateway call.
C17_ValidationAborts ==
    [][(last'.route \in {"add", "edit"}
          /\ (last'.outcome = "validation" \/ last'.negative)) =>
          (products' = products /\ last'.calls = <<>>)]_vars

\* The request l is an add with a valid name and price and with no image, or
\* with an image whose upload failed.
ImagelessAdd(l) ==
    /\ l.route = "add" /\ l.outcome # "validation" /\ ~l.negative
    /\ ~l.url_given
    /\ l.file \in {"absent", "empty", "allowed"} /\ ~Created(l.calls)

\* The step adds exactly one product, without image_url and image_file_id.
CreatesOneWithoutImage ==
    /\ Len(products') = Len(products) + 1
    /\ SubSeq(products', 1, Len(products)) = products
    /\ products'[Len(products')].image_url = None
    /\ products'[Len(products')].image_file_id = None

\* C18 as stated: an add with a valid name and price and no image, or an
\* image whose upload fails, creates exactly one product, with image_url and
\* image_file_id empty.
C18_ImagelessAddAsStated ==
    [][ImagelessAdd(last') => CreatesOneWithoutImage]_vars

\* C18, amended: such an add creates exactly one product, with image_url and
\* image_file_id empty, when the database accepts its commit.
C18_ImagelessAdd ==
    [][(ImagelessAdd(last') /\ last'.db_ok) => CreatesOneWithoutImage]_vars

C18_Witness ==
    /\ ImagelessAdd(last) /\ last.committed
    /\ Len(last.calls) = 1 /\ last.calls[1].net /\ ~last.calls[1].ok
    /\ ImageOf(products, last.id) = <<None, None>>

\* C19: after a committed add whose upload succeeded the product stores the
\* returned URL as image_url and the returned identifier as image_file_id,
\* and the Product class has both fields.
C19_UploadedImageStored ==
    (last.route = "add" /\ last.committed /\ UploadSucceeded) =>
        /\ ImageOf(products, last.id) = <<last.ref_url, last.ref_id>>
        /\ Truthy(last.ref_url) /\ Truthy(last.ref_id)
        /\ {"image_url", "image_file_id"} \subseteq ProductColumns

\* C20: when the database refuses the commit of an add, an edit or a delete,
\* the store is as it was before the request.
C20_RollbackRestores ==
    [][(last'.route \in {"add", "edit", "delete"} /\ ~last'.db_ok) =>
          products' = products]_vars

C20_Witness ==
    /\ EditOfStored /\ ~last.db_ok /\ last.reason = "exception"
    /\ Len(last.calls) = 2 /\ last.calls[1].ok /\ last.calls[2].ok

-----------------------------------------------------------------------------
(* The claims about POST /upload, over SpecUpload *)

\* The request failed the validation of what the client sent: no image
\* field, an empty file name, a disallowed extension, a zero-byte file.
ClientSideFailure(f) ==
    \/ ~f.present
    \/ f.filename = <<>>
    \/ ~allowed_file(f.filename)
    \/ f.size = 0

UploadBodyComplete ==
    Truthy(last.result.url) /\ Truthy(last.result.file_id) /\ Truthy(last.result.name)

\* C21: POST /upload answers 400 for every client-side validation failure
\* (missing image field, empty file name, disallowed extension, zero-byte
\* file), 500 for every provider or server-side failure, and on success
\* returns url, file_id and name.  A request that fails on both sides (sent
\* to an unconfigured gateway) is left out of the 400 part.
C21_UploadStatuses ==
    last.route = "upload" =>
        /\ (is_configured /\ ClientSideFailure(last.arg)) => last.status = 400
        /\ (~ClientSideFailure(last.arg) /\ ~Truthy(last.result.url)) => last.status = 500
        /\ Truthy(last.result.url) => (last.status = 200 /\ UploadBodyComplete)

\* C22: POST /upload of a valid non-empty PNG answers 200 with url, file_id
\* and name, or 503 when ImageKit is not configured, and nothing else.
C22_ValidPngOutcomes ==
    (last.route = "upload" /\ last.arg = GoodFile) =>
        \/ last.status = 200 /\ UploadBodyComplete
        \/ last.status = 503 /\ ~is_configured

-----------------------------------------------------------------------------
(* The claims about the listing, over SpecQuery *)

Listed == last.route = "index" /\ last.db_ok

ListedIds == {last.listing[i] : i \in 1..Len(last.listing)}

IdsAt(rows) == {products[i].id : i \in rows}

\* The bound was supplied and is not a number.
Malformed(bound) == Strip(bound) # <<>> /\ ~ParseNumber(bound).ok

\* C23: a min_price or max_price that does not parse as a number is ignored:
\* the listing has the rows of the listing with that bound omitted, and the
\* request is answered without an error.
C23_MalformedBoundIgnored ==
    Listed =>
        /\ Malformed(last.min_price) =>
              /\ last.outcome = "ok"
              /\ ListedIds = IdsAt(Selected(last.search, last.category, <<>>, last.max_price))
        /\ Malformed(last.max_price) =>
              /\ last.outcome = "ok"
              /\ ListedIds = IdsAt(Selected(last.search, last.category, last.min_price, <<>>))

C23_Witness ==
    /\ Listed /\ Malformed(last.min_price) /\ last.max_price = <<"1","0">>
    /\ ListedIds # {} /\ ListedIds # Ids

\* C24: the listing is ordered by creation time, latest first, and products
\* with the same creation time appear in insertion order.
C24_StableOrder ==
    Listed =>
        \A i, j \in 1..Len(last.listing) :
            i < j =>
                LET a == products[IndexOf(last.listing[i])]
                    b == products[IndexOf(last.listing[j])]
                IN  \/ a.created_at > b.created_at
                    \/ a.created_at = b.created_at /\ a.id < b.id

CaseInsensitiveLeq(a, b) == ~StrLess(Lower(b), Lower(a))

\* C26: the suggestions are the distinct product names of the whole table,
\* whatever the search, category and price filters, sorted case-insensitively.
C26_Suggestions ==
    Listed =>
        /\ {last.suggestions[i] : i \in 1..Len(last.suggestions)}
              = {products[i].name : i \in 1..Len(products)}
        /\ \A i, j \in 1..Len(last.suggestions) :
              i < j => /\ last.suggestions[i] # last.suggestions[j]
                       /\ CaseInsensitiveLeq(last.suggestions[i], last.suggestions[j])

C26_Witness ==
    /\ Listed /\ last.suggestions = << <<"a","B">>, <<"C">> >>
    /\ Len(last.listing) < Len(products)

-----------------------------------------------------------------------------
(* The claim about allowed_file, over SpecFiles *)

ImageExtensions ==
    {<<"p","n","g">>, <<"j","p","g">>, <<"j","p","e","g">>, <<"g","i","f">>}

\* The name has a '.', and what follows its last '.' is, letter case
\* ignored, an image extension.
HasImageExtension(name) ==
    \E k \in 1..Len(name) :
        /\ name[k] = "."
        /\ \A j \in (k + 1)..Len(name) : name[j] # "."
        /\ \E e \in ImageExtensions :
              /\ Len(name) - k = Len(e)
              /\ \A j \in 1..Len(e) : LowerChar(name[k + j]) = e[j]

\* C27: allowed_file(filename) is true exactly when the file name contains a
\* '.' and the text after its last '.' is, letter case ignored, one of png,
\* jpg, jpeg, gif: image.PNG is accepted, document.pdf, script.js and names
\* without a dot are refused.
C27_AllowedFile ==
    last.route = "allowed_file" =>
        /\ last.result <=> HasImageExtension(last.arg)
        /\ last.arg = <<"i","m","a","g","e",".","P","N","G">> => last.result
        /\ last.arg \in {<<"d","o","c","u","m","e","n","t",".","p","d","f">>,
                          <<"s","c","r","i","p","t",".","j","s">>, <<"p","n","g">>}
              => ~last.result

C27_Witness ==
    /\ last.route = "allowed_file" /\ last.result
    /\ last.arg = <<"i","m","a","g","e",".","P","N","G">>

-----------------------------------------------------------------------------
(* The claims about the fields of a product, over SpecFields *)

\* The quantity field does not parse as an integer, or is negative.
BadQuantity(q) == ~ParseNumber(q).ok \/ ParseNumber(q).val < 0

\* C28: in every reachable state every stored quantity is a non-negative
\* integer; an add or edit whose quantity is unparseable or negative is not
\* rejected for it and, once committed, has stored quantity 0.
C28_QuantityNonNegative ==
    /\ \A i \in 1..Len(products) : products[i].quantity \in Nat
    /\ (last.route \in {"add", "edit"} /\ (last.route = "edit" => last.found)
            /\ BadQuantity(last.quantity)) =>
          /\ last.outcome # "validation"
          /\ last.db_ok <=> last.committed
          /\ last.committed => Get(last.id).quantity = 0

C28_Witness ==
    /\ EditOfStored /\ last.committed /\ last.quantity = <<"-","2">>
    /\ Get(last.id).quantity = 0

\* The rows of the store other than the one with this id.
Others(table, id) == SelectSeq(table, LAMBDA p : p.id # id)

\* The frame of an edit: the store keeps its length, every product other than
\* the addressed one is as it was, and the addressed one keeps its id and
\* created_at.
EditKeepsFrame ==
    /\ Len(products') = Len(products)
    /\ Others(products', last'.id) = Others(products, last'.id)
    /\ products'[IndexOf(last'.id)].id = products[IndexOf(last'.id)].id
    /\ products'[IndexOf(last'.id)].created_at = products[IndexOf(last'.id)].created_at

\* The edited product's updated_at is the time of the edit.
EditRefreshes == products'[IndexOf(last'.id)].updated_at = now

UniqueIds(table) ==
    \A i, j \in 1..Len(table) : i # j => table[i].id # table[j].id

\* C29 as stated: no two products share an id; an edit of a stored product
\* leaves the id and created_at of that product and every other product as
\* they were, and always sets updated_at to the time of the edit.
C29_EditFrameAsStated ==
    [][/\ UniqueIds(products')
       /\ (last'.route = "edit" /\ last'.found) => (EditKeepsFrame /\ EditRefreshes)]_vars

\* C29: in every reachable state no two products share an id; an edit leaves
\* the id and created_at of the edited product and every other product as
\* they were, and an edit that passes validation and whose commit succeeds
\* sets updated_at to the time of the edit.
C29_EditFrame ==
    [][/\ UniqueIds(products')
       /\ (last'.route = "edit" /\ last'.found) =>
             /\ EditKeepsFrame
             /\ (last'.outcome # "validation" /\ last'.db_ok) => EditRefreshes]_vars

C29_Witness ==
    /\ EditOfStored /\ last.committed /\ Len(products) = 2
    /\ Get(last.id).updated_at > Get(last.id).created_at

-----------------------------------------------------------------------------
(* The claim about references to deleted provider objects, over Spec *)

\* The identifiers the last request sent to the provider for deletion.
DeletionRequested ==
    {last.calls[k].arg : k \in {j \in 1..Len(last.calls) :
                                    last.calls[j].fn = "delete_image" /\ last.calls[j].net}}

\* C30: in every reachable state no stored product with a non-empty
\* image_file_id references a provider object whose deletion the application
\* has requested. Stated for the deletions of the latest request only, which
\* the claim's "any sequence of requests" includes.
C30_NoDanglingReference ==
    \A i \in 1..Len(products) :
        Truthy(products[i].image_file_id) =>
            products[i].image_file_id \notin DeletionRequested

====
